---- MODULE Spec2Model ----
(***************************************************************************)
(* A model of pysces/panel.py: the regularized vortex kernel               *)
(* (LumpedVortex), the bound vortex panel solver (BoundVortexPanels) and   *)
(* the free vortex particle wake (FreeVortexParticles).                    *)
(*                                                                         *)
(* Numbers.  The program computes in floating point; the model computes    *)
(* in exact rational arithmetic.  A number is a pair <<n, d>> with d > 0   *)
(* and gcd(n, d) = 1; the pair <<0, 0>> is the "not a number" that 0/0     *)
(* produces in numpy.  A point or vector is a pair <<x, y>> of numbers,    *)
(* and an array of shape (2, n) is the sequence of its n columns.          *)
(***************************************************************************)
EXTENDS Integers, Sequences, FiniteSets

(***************************************************************************)
(* Exact rational arithmetic                                               *)
(***************************************************************************)
Abs(a) == IF a < 0 THEN -a ELSE a

RECURSIVE Gcd(_, _)
Gcd(a, b) == IF b = 0 THEN a ELSE Gcd(b, a % b)

\* the number n/d in lowest terms, d # 0
Rat(n, d) ==
    LET g == Gcd(Abs(n), Abs(d))
        s == IF d < 0 THEN -1 ELSE 1
    IN  <<(s * n) \div g, (s * d) \div g>>

R(n) == <<n, 1>>
Zero == <<0, 1>>
One == <<1, 1>>
NaN == <<0, 0>>

IsFinite(x) == x[2] # 0

RNeg(x) == <<-x[1], x[2]>>

RAdd(x, y) ==
    LET g == Gcd(x[2], y[2])
    IN  Rat(x[1] * (y[2] \div g) + y[1] * (x[2] \div g), (x[2] \div g) * y[2])

RSub(x, y) == RAdd(x, RNeg(y))

\* cross-cancelled before multiplying, to keep the intermediate values small
RMul(x, y) ==
    LET g1 == Gcd(Abs(x[1]), y[2])
        g2 == Gcd(Abs(y[1]), x[2])
    IN  Rat((x[1] \div g1) * (y[1] \div g2), (x[2] \div g2) * (y[2] \div g1))

\* x / y as numpy divides: 0/0 is nan (a nonzero x over 0 does not occur)
RDiv(x, y) ==
    IF y[1] = 0 THEN NaN
    ELSE RMul(x, IF y[1] < 0 THEN <<-y[2], -y[1]>> ELSE <<y[2], y[1]>>)

\* x < y, decided on the continued-fraction expansions (no products)
RECURSIVE RLess(_, _)
RLess(x, y) ==
    LET qx == x[1] \div x[2]
        qy == y[1] \div y[2]
        fx == x[1] % x[2]
        fy == y[1] % y[2]
    IN  IF qx # qy THEN qx < qy
        ELSE IF fy = 0 THEN FALSE
        ELSE IF fx = 0 THEN TRUE
        ELSE RLess(<<y[2], fy>>, <<x[2], fx>>)

RMax(x, y) == IF RLess(x, y) THEN y ELSE x

\* the exact square root of a perfect square (the model's inputs have
\* rational lengths)
ISqrt(n) == CHOOSE k \in 0..n : k * k = n
RSqrt(x) == <<ISqrt(x[1]), ISqrt(x[2])>>

(***************************************************************************)
(* Vectors and (2, n) arrays                                               *)
(***************************************************************************)
V(a, b) == <<R(a), R(b)>>
VZero == <<Zero, Zero>>
VAdd(u, v) == <<RAdd(u[1], v[1]), RAdd(u[2], v[2])>>
VSub(u, v) == <<RSub(u[1], v[1]), RSub(u[2], v[2])>>
VScale(c, v) == <<RMul(c, v[1]), RMul(c, v[2])>>
VDot(u, v) == RAdd(RMul(u[1], v[1]), RMul(u[2], v[2]))
VNorm(v) == RSqrt(VDot(v, v))

\* np.zeros_like(x) of a (2, n) array
ZerosLike(x) == [k \in 1..Len(x) |-> VZero]
\* a + b of two (2, n) arrays
ArrAdd(a, b) == [k \in 1..Len(a) |-> VAdd(a[k], b[k])]
\* a * c of a (2, n) array and a scalar
ArrScale(a, c) == [k \in 1..Len(a) |-> VScale(c, a[k])]
\* np.sum(a * b, 0): the column-wise dot products
ColDot(a, b) == [k \in 1..Len(a) |-> VDot(a[k], b[k])]

RECURSIVE SumSeq(_)
SumSeq(s) == IF s = <<>> THEN Zero ELSE RAdd(s[1], SumSeq(Tail(s)))

(***************************************************************************)
(* LumpedVortex                                                            *)
(***************************************************************************)
\* np.pi, to the precision the model carries
Pi == <<22, 7>>
TwoPi == RMul(R(2), Pi)

\* LumpedVortex._core_radius, the class default 1.e-3
DefaultCoreRadius == <<1, 1000>>

\* LumpedVortex.induced_velocity_single of an object whose core_radius is
\* core_radius: the velocity induced at the columns of x by a vortex of
\* strength gam at xvort
induced_velocity_single(core_radius, x, xvort, gam) ==
    [k \in 1..Len(x) |->
        LET r == VSub(x[k], xvort)
            rsq == RMax(VDot(r, r), RMul(core_radius, core_radius))
            c == RDiv(gam, TwoPi)
        IN  <<RDiv(RMul(c, r[2]), rsq), RDiv(RMul(c, RNeg(r[1])), rsq)>>]

(***************************************************************************)
(* The absent value of Python (None, or an attribute not yet set) is the   *)
(* empty tuple; every array, matrix, point and number is a non-empty one.  *)
(***************************************************************************)
None == <<>>

(***************************************************************************)
(* The body and motion collaborators                                       *)
(*                                                                         *)
(* A body is its boundary points (get_points) and its motion (get_motion). *)
(* A motion is None or <<k, d, v>>: the body frame is turned by k quarter  *)
(* turns and displaced by d, and the body translates with velocity v.      *)
(***************************************************************************)
Rot(k, p) ==
    CASE k = 0 -> p
      [] k = 1 -> <<RNeg(p[2]), p[1]>>
      [] k = 2 -> <<RNeg(p[1]), RNeg(p[2])>>
      [] OTHER -> <<p[2], RNeg(p[1])>>

\* motion.map_position of one point
MapPoint(m, p) == VAdd(Rot(m[1], p), m[2])
\* motion.map_position of a (2, n) array
map_position(m, x) == [k \in 1..Len(x) |-> MapPoint(m, x[k])]
\* motion.map_vector of a (2, n) array
map_vector(m, x) == [k \in 1..Len(x) |-> Rot(m[1], x[k])]
\* motion.map_velocity of a (2, n) array of body-frame points
map_velocity(m, x) == [k \in 1..Len(x) |-> m[3]]

(***************************************************************************)
(* np.linalg.solve: Gaussian elimination, exact.  The empty tuple is the   *)
(* LinAlgError of a singular matrix.                                       *)
(***************************************************************************)
Singular == <<>>

\* the least row of A with a nonzero first entry, 0 when there is none
PivotRow(A) ==
    LET rows == {i \in 1..Len(A) : A[i][1] # Zero}
    IN  IF rows = {} THEN 0 ELSE CHOOSE i \in rows : \A j \in rows : i <= j

RECURSIVE Solve(_, _)
Solve(A, b) ==
    LET n == Len(A)
        p == PivotRow(A)
    IN  IF p = 0 THEN Singular
        ELSE IF n = 1 THEN <<RDiv(b[1], A[1][1])>>
        ELSE
          LET others == [k \in 1..(n - 1) |-> IF k < p THEN k ELSE k + 1]
              f(i) == RDiv(A[i][1], A[p][1])
              A2 == [k \in 1..(n - 1) |->
                       [j \in 1..(n - 1) |->
                          RSub(A[others[k]][j + 1],
                               RMul(f(others[k]), A[p][j + 1]))]]
              b2 == [k \in 1..(n - 1) |->
                       RSub(b[others[k]], RMul(f(others[k]), b[p]))]
              y == Solve(A2, b2)
          IN  IF y = Singular THEN Singular
              ELSE
                LET dot == SumSeq([j \in 1..(n - 1) |-> RMul(A[p][j + 1], y[j])])
                IN  <<RDiv(RSub(b[p], dot), A[p][1])>> \o y

(***************************************************************************)
(* State                                                                   *)
(***************************************************************************)
VARIABLES
    body_points,        \* body.get_points(body_frame=True), the columns of q
    body_motion,        \* body.get_motion(): None or a motion
    _numpanels, _normals, _xvort, _xcoll, _trailing_edge, _wake_dir,
    _gam,               \* BoundVortexPanels: the panel strengths
    _influence_matrix,  \* BoundVortexPanels: None or the cached matrix (rows)
    _x_shed, _gam_shed, \* BoundVortexPanels: None until an unsteady solve
    bvp_core_radius,    \* BoundVortexPanels: _core_radius
    _x_vortices,        \* FreeVortexParticles: None or the (2, n) array
    _gamma, _num_vortices, _circulation,
    fvp_core_radius,    \* FreeVortexParticles: _core_radius
    x_arg,              \* the caller's array _x_vortices is a view of, or None
    n_computed,         \* runs of lines 116-122 since the geometry was last set
    unsteady_returned,  \* a call of update_strengths_unsteady has returned
    n_discarded,        \* the particles the last reset discarded
    n_calls,            \* the calls made so far
    lastOp, args, ret,  \* the last call, its arguments, <<outcome, value>>
    kx, kxvort, kgam, kcore, kvel  \* a call of the kernel and its result

body_vars == <<body_points, body_motion>>
geom_vars == <<_numpanels, _normals, _xvort, _xcoll, _trailing_edge, _wake_dir>>
bvp_vars == <<geom_vars, _gam, _influence_matrix, _x_shed, _gam_shed,
              bvp_core_radius>>
fvp_vars == <<_x_vortices, _gamma, _num_vortices, _circulation,
              fvp_core_radius, x_arg>>
kernel_vars == <<kx, kxvort, kgam, kcore, kvel>>
history_vars == <<n_computed, unsteady_returned, n_discarded>>
vars == <<body_vars, bvp_vars, fvp_vars, history_vars, n_calls,
          lastOp, args, ret, kernel_vars>>

(***************************************************************************)
(* BoundVortexPanels: values                                               *)
(***************************************************************************)
Quarter == <<1, 4>>
ThreeQuarters == <<3, 4>>
Half == <<1, 2>>
\* the distance under which the first and last boundary points coincide
ClosedTol == <<5, 1000>>

\* np.diff(q)
Diff(q) == [k \in 1..(Len(q) - 1) |-> VSub(q[k + 1], q[k])]

\* the fields _update computes from the boundary points q and Uinfty
Geometry(q, Uinfty) ==
    LET dq == Diff(q)
        n == Len(dq)
        q25 == [k \in 1..n |-> VAdd(q[k], VScale(Quarter, dq[k]))]
        q75 == [k \in 1..n |-> VAdd(q[k], VScale(ThreeQuarters, dq[k]))]
        top == {k \in 1..n : ~RLess(Zero, VDot(Uinfty, dq[k]))}
        gap == VSub(q[1], q[Len(q)])
        \* norm(gap) < 0.005, compared on the squares
        closed == RLess(VDot(gap, gap), RMul(ClosedTol, ClosedTol))
        wd == VScale(RNeg(Half), VSub(dq[1], dq[n]))
    IN  [numpanels |-> n,
         normals |-> [k \in 1..n |->
                        VScale(RDiv(One, VNorm(dq[k])),
                               <<dq[k][2], RNeg(dq[k][1])>>)],
         xvort |-> [k \in 1..n |-> IF k \in top THEN q75[k] ELSE q25[k]],
         xcoll |-> [k \in 1..n |-> IF k \in top THEN q25[k] ELSE q75[k]],
         trailing_edge |-> IF closed
                           THEN VScale(Half, VAdd(q[1], q[Len(q)]))
                           ELSE q[1],
         wake_dir |-> IF closed
                      THEN VScale(RDiv(One, VNorm(wd)), wd)
                      ELSE VScale(RDiv(One, VNorm(dq[1])),
                                  <<RNeg(dq[1][1]), RNeg(dq[1][2])>>)]

\* lines 117-121 of influence_matrix: the matrix of the current geometry
\* and core radius, A[r][i] the normal velocity at collocation point r of a
\* unit vortex at vortex position i
ComputeInfluence ==
    [r \in 1.._numpanels |->
       [i \in 1.._numpanels |->
          VDot(induced_velocity_single(bvp_core_radius, _xcoll, _xvort[i],
                                       One)[r],
               _normals[r])]]

\* an influence_matrix without the test of line 115
influence_matrix_uncached == <<ComputeInfluence, TRUE>>

\* the property influence_matrix: the matrix it returns and stores, and
\* whether it ran lines 116-122 to compute it
influence_matrix ==
    IF _influence_matrix = None THEN <<ComputeInfluence, TRUE>>
    ELSE <<_influence_matrix, FALSE>>

\* the effect of a read of influence_matrix
ReadInfluenceMatrix ==
    /\ _influence_matrix' = influence_matrix[1]
    /\ n_computed' = IF influence_matrix[2] THEN n_computed + 1 ELSE n_computed

\* BoundVortexPanels.induced_velocity: the sum over zip(columns, strengths)
RECURSIVE SumVelocity(_, _, _, _, _)
SumVelocity(core_radius, x, xv, gams, k) ==
    IF k = 0 THEN ZerosLike(x)
    ELSE ArrAdd(SumVelocity(core_radius, x, xv, gams, k - 1),
                induced_velocity_single(core_radius, x, xv[k], gams[k]))

Min(a, b) == IF a < b THEN a ELSE b

bvp_induced_velocity(x) ==
    LET xvort_in == IF body_motion # None
                    THEN map_position(body_motion, _xvort) ELSE _xvort
    IN  SumVelocity(bvp_core_radius, x, xvort_in, _gam,
                    Min(Len(xvort_in), Len(_gam)))

(***************************************************************************)
(* FreeVortexParticles: values                                             *)
(***************************************************************************)
\* FreeVortexParticles.induced_velocity raises on an empty wake:
\* np.transpose(None) is a 0-d array, which zip cannot iterate
fvp_induced_velocity_raises == _x_vortices = None

fvp_induced_velocity(x) ==
    SumVelocity(fvp_core_radius, x, _x_vortices, _gamma,
                Min(Len(_x_vortices), Len(_gamma)))

\* BoundVortexPanels.compute_rhs raises when the wake it is given does
compute_rhs_raises(wake) == wake /\ fvp_induced_velocity_raises

\* BoundVortexPanels.compute_rhs; wake is TRUE when the wake is passed
compute_rhs(Uinfty, wake) ==
    LET xcoll_inertial == IF body_motion # None
                          THEN map_position(body_motion, _xcoll) ELSE _xcoll
        normals_inertial == IF body_motion # None
                            THEN map_vector(body_motion, _normals)
                            ELSE _normals
        vel0 == IF wake THEN fvp_induced_velocity(xcoll_inertial)
                ELSE [k \in 1.._numpanels |-> VZero]
        vel1 == IF body_motion # None
                THEN [k \in 1..Len(vel0) |->
                        VSub(vel0[k], map_velocity(body_motion, _xcoll)[k])]
                ELSE vel0
        vel == [k \in 1..Len(vel1) |-> VAdd(vel1[k], Uinfty)]
        vn == ColDot(vel, normals_inertial)
    IN  [k \in 1..Len(vn) |-> RNeg(vn[k])]

\* line 178: wake_fac * sqrt(Uinfty[0]**2 + Uinfty[1]**2) * dt
shed_distance(dt, Uinfty, wake_fac) ==
    RMul(RMul(wake_fac, VNorm(Uinfty)), dt)

\* line 179: the position of the new wake vortex, in the body frame
shed_position(dt, Uinfty, wake_fac) ==
    VAdd(_trailing_edge, VScale(shed_distance(dt, Uinfty, wake_fac), _wake_dir))

\* line 188: np.ones((1, n + 1)), the sum of all the strengths
kelvin_row(n) == [j \in 1..(n + 1) |-> One]

\* lines 182-188: the influence matrix with the column of the shed vortex
\* and the row of the total circulation
unsteady_matrix(x_shed) ==
    LET shed_vel == induced_velocity_single(bvp_core_radius, _xcoll, x_shed, One)
        shed_normal == ColDot(shed_vel, _normals)
    IN  [r \in 1..(_numpanels + 1) |->
           IF r <= _numpanels
           THEN influence_matrix[1][r] \o <<shed_normal[r]>>
           ELSE kelvin_row(_numpanels)]

\* lines 191-195: the total circulation the solve enforces
total_circulation(wake, circ) ==
    IF circ = None
    THEN (IF ~wake THEN Zero ELSE RNeg(_circulation))
    ELSE circ

(***************************************************************************)
(* The bounds of the model                                                 *)
(***************************************************************************)
\* the calls made on the two objects after their construction
MaxCalls == 3

\* The numbers of the model are exact fractions of machine integers.  A
\* call is followed from the states whose wake positions have denominators
\* within MaxDenominator and whose panel strengths have denominators within
\* MaxStrengthDenominator, and the wake is passed to the solver while the
\* denominators of the right-hand side multiply to at most
\* MaxRhsDenominator; beyond, the fractions leave the range of the integers.
MaxDenominator == 1
MaxStrengthDenominator == 1000
MaxRhsDenominator == 10000

Tame ==
    /\ \A k \in 1..Len(_x_vortices) :
         /\ _x_vortices[k][1][2] <= MaxDenominator
         /\ _x_vortices[k][2][2] <= MaxDenominator
    /\ \A k \in 1..Len(_gam) : _gam[k][2] <= MaxStrengthDenominator

\* a call can be made
Callable == n_calls < MaxCalls /\ Tame

RECURSIVE DenominatorsWithin(_, _, _)
DenominatorsWithin(s, acc, limit) ==
    IF s = <<>> THEN TRUE
    ELSE /\ s[1][2] <= limit
         /\ acc * s[1][2] <= limit
         /\ DenominatorsWithin(Tail(s), acc * s[1][2], limit)

Fits(rhs) == DenominatorsWithin(rhs, 1, MaxRhsDenominator)

(***************************************************************************)
(* The calls.  Every call records its name, its arguments and its outcome: *)
(* <<"ok", value>> or <<the exception raised, None>>.                      *)
(***************************************************************************)
Returns(op, a, outcome, value) ==
    /\ lastOp' = op
    /\ args' = a
    /\ ret' = <<outcome, value>>
    /\ n_calls' = n_calls + 1

Zeros(n) == [k \in 1..n |-> Zero]

\* BoundVortexPanels.update_positions, lines 104-111
BVP_update_positions ==
    /\ Callable
    /\ _influence_matrix' = None
    /\ n_computed' = 0
    /\ UNCHANGED <<unsteady_returned, n_discarded>>
    /\ Returns("update_positions", <<>>, "ok", None)
    /\ UNCHANGED <<body_vars, geom_vars, _gam, _x_shed, _gam_shed,
                   bvp_core_radius, fvp_vars, kernel_vars>>

\* the setter of core_radius on the panels, lines 28-30
BVP_set_core_radius(value) ==
    /\ Callable
    /\ bvp_core_radius' = value
    /\ UNCHANGED history_vars
    /\ Returns("bvp.core_radius", <<value>>, "ok", None)
    /\ UNCHANGED <<body_vars, geom_vars, _gam, _influence_matrix, _x_shed,
                   _gam_shed, fvp_vars, kernel_vars>>

\* a read of the property influence_matrix, lines 113-123
BVP_influence_matrix ==
    /\ Callable
    /\ ReadInfluenceMatrix
    /\ UNCHANGED <<unsteady_returned, n_discarded>>
    /\ Returns("influence_matrix", <<>>, "ok", influence_matrix[1])
    /\ UNCHANGED <<body_vars, geom_vars, _gam, _x_shed, _gam_shed,
                   bvp_core_radius, fvp_vars, kernel_vars>>

\* BoundVortexPanels.induced_velocity, lines 125-147
BVP_induced_velocity(x) ==
    /\ Callable
    /\ UNCHANGED history_vars
    /\ Returns("bvp.induced_velocity", <<x>>, "ok", bvp_induced_velocity(x))
    /\ UNCHANGED <<body_vars, bvp_vars, fvp_vars, kernel_vars>>

\* BoundVortexPanels.update_strengths, lines 149-152
BVP_update_strengths(Uinfty) ==
    LET rhs == compute_rhs(Uinfty, FALSE)
        gam == Solve(influence_matrix[1], rhs)
    IN  /\ Callable
        /\ ReadInfluenceMatrix
        /\ UNCHANGED <<unsteady_returned, n_discarded>>
        /\ IF gam = Singular
           THEN /\ Returns("update_strengths", <<Uinfty>>, "LinAlgError", None)
                /\ UNCHANGED _gam
           ELSE /\ Returns("update_strengths", <<Uinfty>>, "ok", None)
                /\ _gam' = gam
        /\ UNCHANGED <<body_vars, geom_vars, _x_shed, _gam_shed,
                       bvp_core_radius, fvp_vars, kernel_vars>>

\* BoundVortexPanels.update_strengths_unsteady, lines 154-201
BVP_update_strengths_unsteady(dt, Uinfty, wake, circ, wake_fac) ==
    LET a == <<dt, Uinfty, wake, circ, wake_fac>>
        x_shed == shed_position(dt, Uinfty, wake_fac)
        A == unsteady_matrix(x_shed)
        rhs0 == compute_rhs(Uinfty, wake)
        rhs == rhs0 \o <<total_circulation(wake, circ)>>
        gam == Solve(A, rhs)
    IN  /\ Callable
        /\ Fits(rhs0)
        \* line 186 reads influence_matrix before anything can raise
        /\ ReadInfluenceMatrix
        /\ UNCHANGED n_discarded
        /\ IF compute_rhs_raises(wake)
           THEN /\ Returns("update_strengths_unsteady", a, "TypeError", None)
                /\ UNCHANGED <<_gam, _x_shed, _gam_shed, unsteady_returned>>
           ELSE IF gam = Singular
           THEN /\ Returns("update_strengths_unsteady", a, "LinAlgError", None)
                /\ UNCHANGED <<_gam, _x_shed, _gam_shed, unsteady_returned>>
           ELSE /\ Returns("update_strengths_unsteady", a, "ok", None)
                /\ unsteady_returned' = TRUE
                /\ _gam' = SubSeq(gam, 1, _numpanels)
                /\ _x_shed' = x_shed
                /\ _gam_shed' = gam[_numpanels + 1]
        /\ UNCHANGED <<body_vars, geom_vars, bvp_core_radius, fvp_vars,
                       kernel_vars>>

\* BoundVortexPanels.compute_rhs called on its own, lines 203-222
BVP_compute_rhs(Uinfty, wake) ==
    /\ Callable
    /\ UNCHANGED history_vars
    /\ IF compute_rhs_raises(wake)
       THEN Returns("compute_rhs", <<Uinfty, wake>>, "TypeError", None)
       ELSE Returns("compute_rhs", <<Uinfty, wake>>, "ok",
                    compute_rhs(Uinfty, wake))
    /\ UNCHANGED <<body_vars, bvp_vars, fvp_vars, kernel_vars>>

\* get_newly_shed raises AttributeError while _x_shed was never assigned
get_newly_shed_raises == _x_shed = None

\* a get_newly_shed that returns the recorded body-frame position as it is
get_newly_shed_body_frame == <<_x_shed, _gam_shed>>

\* BoundVortexPanels.get_newly_shed, lines 224-239: the value returned, a
\* fresh array and the strength
get_newly_shed ==
    <<IF body_motion # None THEN MapPoint(body_motion, _x_shed) ELSE _x_shed,
      _gam_shed>>

BVP_get_newly_shed ==
    /\ Callable
    /\ UNCHANGED history_vars
    /\ IF get_newly_shed_raises
       THEN Returns("get_newly_shed", <<>>, "AttributeError", None)
       ELSE Returns("get_newly_shed", <<>>, "ok", get_newly_shed)
    /\ UNCHANGED <<body_vars, bvp_vars, fvp_vars, kernel_vars>>

(***************************************************************************)
(* FreeVortexParticles: the calls                                          *)
(***************************************************************************)
\* FreeVortexParticles.reset, lines 257-261
FVP_reset ==
    /\ Callable
    /\ _x_vortices' = None
    /\ _gamma' = <<>>
    /\ _num_vortices' = 0
    /\ _circulation' = Zero
    /\ x_arg' = None
    /\ n_discarded' = _num_vortices
    /\ UNCHANGED <<n_computed, unsteady_returned>>
    /\ Returns("reset", <<>>, "ok", None)
    /\ UNCHANGED <<body_vars, bvp_vars, fvp_core_radius, kernel_vars>>

\* the free-stream term of advect, lines 290-293
with_freestream(vel, Uinfty) ==
    IF Uinfty # None /\ Uinfty # VZero
    THEN [k \in 1..Len(vel) |-> VAdd(vel[k], Uinfty)]
    ELSE vel

\* an update that moves the particles one after the other, each with the
\* velocity induced by the positions already moved
RECURSIVE advect_sequential_from(_, _, _, _, _)
advect_sequential_from(X, k, dt, Uinfty, body) ==
    IF k > Len(X) THEN X
    ELSE LET v0 == SumVelocity(fvp_core_radius, <<X[k]>>, X, _gamma,
                               Min(Len(X), Len(_gamma)))
             v1 == IF body THEN ArrAdd(v0, bvp_induced_velocity(<<X[k]>>))
                   ELSE v0
             v == with_freestream(v1, Uinfty)[1]
         IN  advect_sequential_from([X EXCEPT ![k] = VAdd(X[k], VScale(dt, v))],
                                    k + 1, dt, Uinfty, body)

advect_positions_sequential(dt, Uinfty, body) ==
    advect_sequential_from(_x_vortices, 1, dt, Uinfty, body)

\* lines 287-294: the positions after the explicit Euler update
advect_positions(dt, Uinfty, body) ==
    LET vel0 == fvp_induced_velocity(_x_vortices)
        vel1 == IF body THEN ArrAdd(vel0, bvp_induced_velocity(_x_vortices))
                ELSE vel0
        vel == with_freestream(vel1, Uinfty)
    IN  ArrAdd(_x_vortices, ArrScale(vel, dt))

\* FreeVortexParticles.advect, lines 268-294.  The update of line 294 is in
\* place: it writes the memory of _x_vortices, which is that of x_arg while
\* _x_vortices is a view of it.
FVP_advect(dt, Uinfty, body) ==
    /\ Callable
    /\ UNCHANGED history_vars
    /\ IF fvp_induced_velocity_raises
       THEN /\ Returns("advect", <<dt, Uinfty, body>>, "TypeError", None)
            /\ UNCHANGED <<_x_vortices, x_arg>>
       ELSE /\ Returns("advect", <<dt, Uinfty, body>>, "ok", None)
            /\ _x_vortices' = advect_positions(dt, Uinfty, body)
            /\ x_arg' = IF x_arg # None THEN _x_vortices'[1] ELSE None
    /\ UNCHANGED <<body_vars, bvp_vars, _gamma, _num_vortices, _circulation,
                   fvp_core_radius, kernel_vars>>

\* an add_vortex whose line 313 assigns the strength instead of adding it
AddVortex_assigning(x, gamma) ==
    /\ _x_vortices' = IF _x_vortices = None THEN <<x>>
                      ELSE Append(_x_vortices, x)
    /\ _gamma' = Append(_gamma, gamma)
    /\ _num_vortices' = _num_vortices + 1
    /\ _circulation' = gamma

\* lines 306-313 of add_vortex
AddVortex(x, gamma) ==
    /\ _x_vortices' = IF _x_vortices = None THEN <<x>>
                      ELSE Append(_x_vortices, x)
    /\ _gamma' = Append(_gamma, gamma)
    /\ _num_vortices' = _num_vortices + 1
    /\ _circulation' = RAdd(_circulation, gamma)

\* FreeVortexParticles.add_vortex called with an array x of the caller:
\* x[:, np.newaxis] (line 307) is a view of x, np.append (line 309) makes a
\* new array
FVP_add_vortex(x, gamma) ==
    /\ Callable
    /\ AddVortex(x, gamma)
    /\ x_arg' = IF _x_vortices = None THEN x ELSE None
    /\ UNCHANGED history_vars
    /\ Returns("add_vortex", <<x, gamma>>, "ok", None)
    /\ UNCHANGED <<body_vars, bvp_vars, fvp_core_radius, kernel_vars>>

\* FreeVortexParticles.add_newly_shed, lines 315-318: the array added is
\* the fresh one get_newly_shed returns, which no caller holds
FVP_add_newly_shed ==
    /\ Callable
    /\ UNCHANGED history_vars
    /\ IF get_newly_shed_raises
       THEN /\ Returns("add_newly_shed", <<>>, "AttributeError", None)
            /\ UNCHANGED <<_x_vortices, _gamma, _num_vortices, _circulation,
                           x_arg>>
       ELSE /\ Returns("add_newly_shed", <<>>, "ok", None)
            /\ AddVortex(get_newly_shed[1], get_newly_shed[2])
            /\ x_arg' = None
    /\ UNCHANGED <<body_vars, bvp_vars, fvp_core_radius, kernel_vars>>

\* FreeVortexParticles.induced_velocity, lines 320-325
FVP_induced_velocity(x) ==
    /\ Callable
    /\ UNCHANGED history_vars
    /\ IF fvp_induced_velocity_raises
       THEN Returns("fvp.induced_velocity", <<x>>, "TypeError", None)
       ELSE Returns("fvp.induced_velocity", <<x>>, "ok",
                    fvp_induced_velocity(x))
    /\ UNCHANGED <<body_vars, bvp_vars, fvp_vars, kernel_vars>>

(***************************************************************************)
(* The inputs                                                              *)
(***************************************************************************)
\* a flat plate (one panel) turned a quarter turn, displaced and moving,
\* and a bent plate (two panels) at rest; the trailing edge comes first
Plate == <<V(4, 0), V(0, 0)>>
BentPlate == <<V(4, 0), V(0, 0), V(0, 4)>>
Moving == <<1, V(8, 4), V(0, 1)>>
Configurations == {<<Plate, Moving>>, <<BentPlate, None>>}

Orientations == {V(1, 0), V(3, 4)}
FreeStreams == {V(3, 4)}
TimeSteps == {R(4)}
WakeFactors == {Quarter}
\* <<wake, circ>> of update_strengths_unsteady: wake is TRUE when the wake
\* is passed; circulations and strengths are multiples of 2 pi
Constraints == {<<FALSE, None>>, <<TRUE, None>>, <<TRUE, TwoPi>>}
\* a core radius that reaches from a vortex to the collocation points
CoreRadii == {R(4)}
Vortices == {<<V(8, 0), TwoPi>>, <<V(8, 2), RMul(R(-2), TwoPi)>>}
Targets == {<<V(3, 0), V(8, 0)>>}
\* <<Uinfty, body>> of advect
Advections == {<<None, FALSE>>, <<VZero, TRUE>>, <<V(1, 0), FALSE>>,
               <<V(1, 0), TRUE>>}

(***************************************************************************)
(* The program: a BoundVortexPanels on a body and a FreeVortexParticles    *)
(***************************************************************************)
\* BoundVortexPanels.__init__ (lines 67-69, _update of lines 71-102) and
\* FreeVortexParticles.__init__ (lines 254-255)
InitObjects ==
    /\ \E c \in Configurations : body_points = c[1] /\ body_motion = c[2]
    /\ \E Uinfty \in Orientations :
         LET g == Geometry(body_points, Uinfty)
         IN  /\ _numpanels = g.numpanels
             /\ _normals = g.normals
             /\ _xvort = g.xvort
             /\ _xcoll = g.xcoll
             /\ _trailing_edge = g.trailing_edge
             /\ _wake_dir = g.wake_dir
             /\ _gam = Zeros(g.numpanels)
    /\ _influence_matrix = None
    /\ _x_shed = None
    /\ _gam_shed = None
    /\ bvp_core_radius = DefaultCoreRadius
    /\ _x_vortices = None
    /\ _gamma = <<>>
    /\ _num_vortices = 0
    /\ _circulation = Zero
    /\ fvp_core_radius = DefaultCoreRadius
    /\ x_arg = None
    /\ n_computed = 0
    /\ unsteady_returned = FALSE
    /\ n_discarded = 0
    /\ n_calls = 0
    /\ lastOp = "__init__"
    /\ args = <<>>
    /\ ret = <<"ok", None>>

Init ==
    /\ InitObjects
    /\ kx = None /\ kxvort = None /\ kgam = None /\ kcore = None /\ kvel = None

Next ==
    \/ BVP_update_positions
    \/ \E value \in CoreRadii : BVP_set_core_radius(value)
    \/ BVP_influence_matrix
    \/ \E x \in Targets : BVP_induced_velocity(x)
    \/ \E Uinfty \in FreeStreams : BVP_update_strengths(Uinfty)
    \/ \E dt \in TimeSteps, Uinfty \in FreeStreams, c \in Constraints,
          wake_fac \in WakeFactors :
         BVP_update_strengths_unsteady(dt, Uinfty, c[1], c[2], wake_fac)
    \/ \E Uinfty \in FreeStreams, wake \in BOOLEAN :
         BVP_compute_rhs(Uinfty, wake)
    \/ BVP_get_newly_shed
    \/ FVP_reset
    \/ \E dt \in TimeSteps, a \in Advections : FVP_advect(dt, a[1], a[2])
    \/ \E v \in Vortices : FVP_add_vortex(v[1], v[2])
    \/ FVP_add_newly_shed
    \/ \E x \in Targets : FVP_induced_velocity(x)

Spec == Init /\ [][Next]_vars

(***************************************************************************)
(* The kernel on its own: induced_velocity_single of an object whose       *)
(* core_radius was assigned, at one target point                           *)
(***************************************************************************)
KernelPoints == {V(0, 0), V(1, 0), V(0, 2)}
KernelStrengths == {One, TwoPi, R(-3)}
KernelRadii == {Zero, DefaultCoreRadius, One, R(2)}

InitKernel ==
    /\ InitObjects
    /\ kx \in KernelPoints
    /\ kxvort \in KernelPoints
    /\ kgam \in KernelStrengths
    /\ kcore \in KernelRadii
    /\ kvel = None

Kernel_induced_velocity_single ==
    /\ kvel = None
    /\ kvel' = induced_velocity_single(kcore, <<kx>>, kxvort, kgam)[1]
    /\ UNCHANGED <<body_vars, bvp_vars, fvp_vars, history_vars, n_calls,
                   lastOp, args, ret, kx, kxvort, kgam, kcore>>

NextKernel == Kernel_induced_velocity_single

SpecKernel == InitKernel /\ [][NextKernel]_vars

(***************************************************************************)
(* The properties                                                          *)
(***************************************************************************)
Reverse(s) == [k \in 1..Len(s) |-> s[Len(s) + 1 - k]]

\* C1, as the specification states it: after a call of
\* update_strengths_unsteady(dt, Uinfty, wake, circ, wake_fac) whose linear
\* system has a solution, the N panel strengths and the strength of the
\* shed vortex sum to circ when circ is given, to 0 when neither circ nor a
\* wake is given, and to minus the circulation of the wake when only the
\* wake is given.
C1_Original ==
    (lastOp = "update_strengths_unsteady" /\ ret[1] # "LinAlgError") =>
        /\ ret[1] = "ok"
        /\ Len(_gam) = _numpanels
        /\ RAdd(SumSeq(_gam), _gam_shed) =
             (IF args[4] # None THEN args[4]
              ELSE IF ~args[3] THEN Zero
              ELSE RNeg(_circulation))

\* C2: in every reachable state of the wake, circulation is the sum of the
\* strengths of the particles, in the order they were added and in the
\* opposite order, and the particle count is the number of strengths and the
\* number of positions.
C2_WakeCirculation ==
    /\ _circulation = SumSeq(_gamma)
    /\ _circulation = SumSeq(Reverse(_gamma))
    /\ _num_vortices = Len(_gamma)
    /\ _num_vortices = Len(_x_vortices)

\* a wake of two particles of different strengths, the second the vortex
\* shed by the panels
C2_Witness ==
    /\ lastOp = "add_newly_shed"
    /\ ret[1] = "ok"
    /\ _num_vortices = 2
    /\ _gamma[1] # _gamma[2]

\* C3, as the specification states it: once a reset has discarded the
\* vortices of a wake, the circulation and the count are 0 and, until a
\* vortex is added, induced_velocity returns a zero vector for every target
\* point.
C3_Original ==
    (n_discarded > 0 /\ _x_vortices = None) =>
        /\ _circulation = Zero
        /\ _num_vortices = 0
        /\ lastOp = "fvp.induced_velocity" =>
              ret = <<"ok", ZerosLike(args[1])>>

\* C4, as the specification states it: for every target, vortex position,
\* strength and core radius the velocity is finite, it is (0, 0) where the
\* target is the vortex position, and a unit vortex at the origin induces
\* (0, -1/(2 pi)) at (1, 0) (the instance of the formula
\* gam/(2 pi) (r_y, -r_x) / max(|r|^2, core_radius^2) for a core radius of
\* at most 1).
C4_Original ==
    kvel # None =>
        /\ IsFinite(kvel[1]) /\ IsFinite(kvel[2])
        /\ (kx = kxvort => kvel = VZero)
        /\ (/\ kgam = One /\ kxvort = V(0, 0) /\ kx = V(1, 0)
            /\ ~RLess(One, RMul(kcore, kcore))) =>
               kvel = <<Zero, RNeg(RDiv(One, TwoPi))>>

\* C5: the influence matrix is computed at most once between two settings
\* of the geometry: it is stored exactly when it has been computed since,
\* a read of influence_matrix returns the stored N x N matrix, the solvers
\* leave it stored, and construction and update_positions leave it cleared.
C5_ComputedOncePerEpoch ==
    /\ n_computed <= 1
    /\ (_influence_matrix = None) <=> (n_computed = 0)
    /\ _influence_matrix # None =>
         /\ Len(_influence_matrix) = _numpanels
         /\ \A r \in 1.._numpanels : Len(_influence_matrix[r]) = _numpanels
    /\ lastOp = "influence_matrix" => ret = <<"ok", _influence_matrix>>
    /\ lastOp \in {"influence_matrix", "update_strengths",
                   "update_strengths_unsteady"} => _influence_matrix # None
    /\ lastOp \in {"__init__", "update_positions"} => _influence_matrix = None

\* a solve, then a read of influence_matrix: the second access of the epoch
C5_Witness ==
    /\ n_calls = 2
    /\ lastOp = "influence_matrix"
    /\ _gam # Zeros(_numpanels)
    /\ n_computed = 1

\* C6, as the specification states it: once update_strengths_unsteady has
\* returned, get_newly_shed returns the position and the strength that call
\* recorded.
C6_Original ==
    (lastOp = "get_newly_shed" /\ unsteady_returned) =>
        ret = <<"ok", <<_x_shed, _gam_shed>>>>

\* C6, amended: get_newly_shed and add_newly_shed raise AttributeError and
\* return nothing while no update_strengths_unsteady has returned; once one
\* has, the position recorded is trailing edge + wake_fac |Uinfty| dt wake
\* direction of the last call that returned, get_newly_shed returns that
\* position mapped by the motion of the body (as it is when the body has
\* none) with the recorded strength, and add_newly_shed appends them.
C6_NewlyShed ==
    LET shed == <<IF body_motion = None THEN _x_shed
                  ELSE VAdd(Rot(body_motion[1], _x_shed), body_motion[2]),
                  _gam_shed>>
    IN  /\ (lastOp \in {"get_newly_shed", "add_newly_shed"}
              /\ ~unsteady_returned) => ret = <<"AttributeError", None>>
        /\ (lastOp \in {"get_newly_shed", "add_newly_shed"}
              /\ unsteady_returned) => ret[1] = "ok"
        /\ (lastOp = "get_newly_shed" /\ unsteady_returned) => ret[2] = shed
        /\ (lastOp = "add_newly_shed" /\ unsteady_returned) =>
              /\ _x_vortices[_num_vortices] = shed[1]
              /\ _gamma[_num_vortices] = shed[2]
        /\ (lastOp = "update_strengths_unsteady" /\ ret[1] = "ok") =>
              _x_shed = VAdd(_trailing_edge,
                             VScale(RMul(RMul(args[5], VNorm(args[2])), args[1]),
                                    _wake_dir))
        /\ unsteady_returned <=> (_x_shed # None)

\* get_newly_shed has returned the shed vortex of a body that has a motion
C6_Witness ==
    /\ lastOp = "get_newly_shed"
    /\ ret[1] = "ok"
    /\ body_motion # None
    /\ ret[2][1] # _x_shed

\* C7, as the specification states it: advect on an empty wake returns and
\* leaves the wake empty.
C7_Original ==
    (lastOp = "advect" /\ _num_vortices = 0) =>
        /\ ret[1] = "ok"
        /\ _x_vortices = None
        /\ _circulation = Zero

\* C8: advect replaces the position of every particle by position + dt *
\* velocity, the velocity of each particle being the one all particles
\* induce at the positions before the call, plus the one the body induces
\* there when a body is given, plus the free stream when it is nonzero;
\* the strengths, the count, the order and the circulation do not change.
C8_SimultaneousEuler ==
    [][lastOp' = "advect" =>
          LET dt == args'[1]
              Uinfty == args'[2]
              body == args'[3]
              self_vel == fvp_induced_velocity(_x_vortices)
              body_vel == bvp_induced_velocity(_x_vortices)
              velocity(k) ==
                  LET v1 == IF body THEN VAdd(self_vel[k], body_vel[k])
                            ELSE self_vel[k]
                  IN  IF Uinfty # None /\ Uinfty # VZero
                      THEN VAdd(v1, Uinfty) ELSE v1
          IN  /\ Len(_x_vortices') = Len(_x_vortices)
              /\ \A k \in 1..Len(_x_vortices) :
                   _x_vortices'[k] =
                       VAdd(_x_vortices[k], VScale(dt, velocity(k)))
              /\ _gamma' = _gamma
              /\ _num_vortices' = _num_vortices
              /\ _circulation' = _circulation]_vars

\* an advect of two particles in a free stream has returned
C8_Witness ==
    /\ lastOp = "advect"
    /\ ret[1] = "ok"
    /\ _num_vortices = 2
    /\ _x_vortices[1] # _x_vortices[2]
    /\ args[2] # None
    /\ args[2] # VZero

\* C9, as the specification states it: the matrix influence_matrix returns
\* is the one a fresh computation from the current vortex positions,
\* collocation points, normals and core radius gives.
C9_Original ==
    lastOp = "influence_matrix" => ret[2] = ComputeInfluence

\* C10, as the specification states it: advect leaves the array the caller
\* passed to add_vortex and the shed position the panels recorded as they
\* were.
C10_Original ==
    [][lastOp' = "advect" => (x_arg' = x_arg /\ _x_shed' = _x_shed)]_vars

====
